---- MODULE Spec2Model ----
(***************************************************************************)
(* os-find: a command-line file finder (src/main.cpp).                     *)
(*                                                                         *)
(* set_args parses argv into the global filter criteria, main opens the    *)
(* root directory, visit walks the tree with getdents64 and collects the   *)
(* paths of the regular files that matches() accepts, and main prints the  *)
(* paths or execs a command with them.                                     *)
(*                                                                         *)
(* Strings are sequences of one-character strings, so that concatenation,  *)
(* prefixes and number parsing are computed, not assumed.                  *)
(***************************************************************************)
EXTENDS Integers, Sequences, FiniteSets, TLC

(***************************************************************************)
(* Bounds of the model.                                                    *)
(***************************************************************************)
MaxNodes == 3        \* entries of the directory tree below the root
MaxSize == 2         \* largest file size and size threshold
MaxArgc == 6         \* largest argc handed to main
MaxFailures == 1     \* I/O operations that fail during one run

(***************************************************************************)
(* Program constants.                                                      *)
(***************************************************************************)
BUFFER_SIZE == 1024

Slash == "/"
Dot == <<".">>
DotDot == <<".", ".">>
Names == {<<"a">>, <<"b">>}
RootArgs == {<<"r">>, <<"r", "/">>}
Types == {"DT_REG", "DT_DIR", "DT_LNK"}

VARIABLES
    \* the file system (the environment of the program; never changes)
    tree,            \* node id -> [parent, d_type, d_name]
    failures,        \* how many I/O operations have failed so far
    \* the command line
    argc,            \* argc of main
    argv,            \* the part of argv set_args has read so far (argv[0] left out)
    \* globals of main.cpp
    inode_target, name_target, size_mode, size_target, nlinks_target, exec_target,
    results,         \* std::vector<string> results
    \* locals of set_args and main
    i, hasDir, dirPosition, path,
    \* the process
    pc,              \* "set_args", "main", "visit", "dispatch", "exit"
    stack,           \* the active visit() calls, innermost last
    fds,             \* every handle opened so far: [kind, node, nclose]
    out,             \* what was written to cout: sequence of [msg, text]
    image,           \* the process image after execv, or <<>>
    \* one call of matches() on its own
    probe,           \* the arguments: [entry, st, io], or <<>>
    verdict          \* what the call returned, or <<>>

vars == <<tree, failures, argc, argv, inode_target, name_target, size_mode,
          size_target, nlinks_target, exec_target, results, i, hasDir,
          dirPosition, path, pc, stack, fds, out, image, probe, verdict>>

argVars == <<argc, argv, i, hasDir, dirPosition>>
criteria == <<inode_target, name_target, size_mode, size_target, nlinks_target>>
\* what the walk never writes
walkFixed == <<tree, argVars, criteria, exec_target, path, image, probe, verdict>>

(***************************************************************************)
(* The file system.  Node 0 is the root directory; node n > 0 is an entry  *)
(* of directory tree[n].parent.  A directory's stream yields "." and       *)
(* "..", then its entries in ascending node order (the order is the        *)
(* stream's, not the names').  Size and link count belong to the inode.    *)
(***************************************************************************)
Root == 0
DotId == -1
DotDotId == -2

Nodes == DOMAIN tree

Ino(n) == n + 1

StSize(ino) == ino % (MaxSize + 1)

StNlink(ino) == 1 + (ino % 2)

NodeRec(n) ==
    [parent : 0 .. (n - 1), d_type : Types, d_name : Names]

IsTree(t) ==
    /\ \A n \in DOMAIN t : t[n].parent # Root => t[t[n].parent].d_type = "DT_DIR"
    /\ \A m, n \in DOMAIN t :
         (m # n /\ t[m].parent = t[n].parent) => t[m].d_name # t[n].d_name

RECURSIVE TreesOf(_)
TreesOf(n) ==
    IF n = 0 THEN {<<>>}
    ELSE {Append(t, r) : t \in TreesOf(n - 1), r \in NodeRec(n)}

Trees == UNION {{t \in TreesOf(n) : IsTree(t)} : n \in 0 .. MaxNodes}

IsDir(n) == n = Root \/ tree[n].d_type = "DT_DIR"

RECURSIVE ChildrenFrom(_, _)
ChildrenFrom(d, n) ==
    IF n > Len(tree) THEN <<>>
    ELSE (IF tree[n].parent = d THEN <<n>> ELSE <<>>) \o ChildrenFrom(d, n + 1)

Children(d) == ChildrenFrom(d, 1)

Stream(d) == <<DotId, DotDotId>> \o Children(d)

ParentOf(d) == IF d = Root THEN Root ELSE tree[d].parent

\* the linux_dirent64 record the stream of directory d yields for e
Entry(d, e) ==
    IF e = DotId THEN [d_ino |-> Ino(d), d_type |-> "DT_DIR", d_name |-> Dot]
    ELSE IF e = DotDotId
    THEN [d_ino |-> Ino(ParentOf(d)), d_type |-> "DT_DIR", d_name |-> DotDot]
    ELSE [d_ino |-> Ino(e), d_type |-> tree[e].d_type, d_name |-> tree[e].d_name]

\* the node that openat(dir_fd, name) reaches
Target(d, e) ==
    IF e = DotId THEN d ELSE IF e = DotDotId THEN ParentOf(d) ELSE e

\* struct stat of the file an entry names
Stat(entry) == [st_size |-> StSize(entry.d_ino), st_nlink |-> StNlink(entry.d_ino)]

\* d_reclen: the 19 bytes before d_name, the name, its NUL, rounded up to 8
RecLen(e) == ((19 + Len(e.d_name) + 1 + 7) \div 8) * 8

\* getdents64(dir_fd, buf, BUFFER_SIZE): the entries after offset off that
\* fit in the buffer
RECURSIVE Fill(_, _, _)
Fill(d, off, room) ==
    IF off >= Len(Stream(d)) THEN <<>>
    ELSE LET e == Stream(d)[off + 1]
         IN  IF RecLen(Entry(d, e)) > room THEN <<>>
             ELSE <<e>> \o Fill(d, off + 1, room - RecLen(Entry(d, e)))

GetDents(d, off) == Fill(d, off, BUFFER_SIZE)

(***************************************************************************)
(* cout                                                                    *)
(***************************************************************************)
\* a message and the path it names; print_error's strerror line goes with it
Line(msg, text) == [msg |-> msg, text |-> text]

RECURSIVE Lines(_, _)
Lines(msg, texts) ==
    IF texts = <<>> THEN <<>>
    ELSE <<Line(msg, Head(texts))>> \o Lines(msg, Tail(texts))

(***************************************************************************)
(* matches (main.cpp 49-102).  io says which system call fails, if the     *)
(* call is reached: "open", "fstat" or "ok".  The result tells what        *)
(* matches returned, whether openat returned a handle, whether the handle  *)
(* was closed, and the line printed.                                       *)
(***************************************************************************)
MatchResult(ret, opened, msg) == [ret |-> ret, opened |-> opened, closed |-> FALSE, msg |-> msg]

\* SizeFails with the comparisons strict
SizeFailsStrict(st) ==
    CASE size_mode = "LESS" -> st.st_size >= size_target
      [] size_mode = "EQUAL" -> st.st_size # size_target
      [] size_mode = "GREATER" -> st.st_size <= size_target
      [] OTHER -> FALSE

SizeFails(st) ==
    CASE size_mode = "LESS" -> st.st_size > size_target
      [] size_mode = "EQUAL" -> st.st_size # size_target
      [] size_mode = "GREATER" -> st.st_size < size_target
      [] OTHER -> FALSE

\* matches without the link-count check
matchesNoNlink(entry, st, io) ==
    IF inode_target # 0 /\ entry.d_ino # inode_target
    THEN MatchResult(FALSE, FALSE, "")
    ELSE IF name_target # <<>> /\ entry.d_name # name_target
    THEN MatchResult(FALSE, FALSE, "")
    ELSE IF size_mode = "NONE" /\ nlinks_target = 0
    THEN MatchResult(TRUE, FALSE, "")
    ELSE IF io = "open"
    THEN MatchResult(FALSE, FALSE, "Error opening file at")
    ELSE IF io = "fstat"
    THEN MatchResult(FALSE, TRUE, "Error reading stats of file at")
    ELSE IF size_mode # "NONE" /\ SizeFails(st)
    THEN MatchResult(FALSE, TRUE, "")
    ELSE MatchResult(TRUE, TRUE, "")

matches(entry, st, io) ==
    IF inode_target # 0 /\ entry.d_ino # inode_target
    THEN MatchResult(FALSE, FALSE, "")
    ELSE IF name_target # <<>> /\ entry.d_name # name_target
    THEN MatchResult(FALSE, FALSE, "")
    ELSE IF size_mode = "NONE" /\ nlinks_target = 0
    THEN MatchResult(TRUE, FALSE, "")
    ELSE IF io = "open"
    THEN MatchResult(FALSE, FALSE, "Error opening file at")
    ELSE IF io = "fstat"
    THEN MatchResult(FALSE, TRUE, "Error reading stats of file at")
    ELSE IF size_mode # "NONE" /\ SizeFails(st)
    THEN MatchResult(FALSE, TRUE, "")
    ELSE IF nlinks_target # 0 /\ nlinks_target # st.st_nlink
    THEN MatchResult(FALSE, TRUE, "")
    ELSE MatchResult(TRUE, TRUE, "")

(***************************************************************************)
(* Handles.  Every open makes a new handle; close counts.                  *)
(***************************************************************************)
Handle(kind, node) == [kind |-> kind, node |-> node, nclose |-> 0]

Open(table, kind, node) == Append(table, Handle(kind, node))

Close(table, h) == [table EXCEPT ![h].nclose = @ + 1]

IsOpen(h) == fds[h].nclose = 0

(***************************************************************************)
(* visit (main.cpp 104-143).  A frame is one active call: the directory,   *)
(* its handle, the path argument, the stream offset of the handle, the     *)
(* batch in buf and the position ptr in it.                                *)
(***************************************************************************)
Frame(dir, fd, p) ==
    [dir |-> dir, fd |-> fd, path |-> p, off |-> 0, buf |-> <<>>, ptr |-> 1]

Top == stack[Len(stack)]

SetTop(f) == [stack EXCEPT ![Len(stack)] = f]

InLoop == pc = "visit" /\ stack # <<>> /\ Top.ptr <= Len(Top.buf)

AtRead == pc = "visit" /\ stack # <<>> /\ Top.ptr > Len(Top.buf)

Cur == Top.buf[Top.ptr]

CurEntry == Entry(Top.dir, Cur)

\* ptr += entry->d_reclen
Advance(f) == [f EXCEPT !.ptr = @ + 1]

\* results.insert(results.begin(), p)
PushFront(list, p) == <<p>> \o list

\* results.push_back(p)
PushBack(list, p) == Append(list, p)

\* visit returns: the caller closes the handle it opened (line 137 in
\* visit, line 261 in main) and goes on
\* Return, had the callee's batch overwritten the caller's buffer
ReturnClobbered ==
    IF Len(stack) > 1
    THEN /\ stack' = [k \in 1 .. (Len(stack) - 1) |->
                        IF k = Len(stack) - 1
                        THEN [stack[k] EXCEPT !.ptr = Len(stack[k].buf) + 1]
                        ELSE stack[k]]
         /\ fds' = Close(fds, Top.fd)
         /\ pc' = pc
    ELSE /\ stack' = <<>>
         /\ fds' = Close(fds, Top.fd)
         /\ pc' = "dispatch"

\* Return, without close(fd) after the recursive call
ReturnNoClose ==
    IF Len(stack) > 1
    THEN /\ stack' = [k \in 1 .. (Len(stack) - 1) |->
                        IF k = Len(stack) - 1 THEN Advance(stack[k]) ELSE stack[k]]
         /\ fds' = fds
         /\ pc' = pc
    ELSE /\ stack' = <<>>
         /\ fds' = Close(fds, Top.fd)
         /\ pc' = "dispatch"

Return ==
    IF Len(stack) > 1
    THEN /\ stack' = [k \in 1 .. (Len(stack) - 1) |->
                        IF k = Len(stack) - 1 THEN Advance(stack[k]) ELSE stack[k]]
         /\ fds' = Close(fds, Top.fd)
         /\ pc' = pc
    ELSE /\ stack' = <<>>
         /\ fds' = Close(fds, Top.fd)
         /\ pc' = "dispatch"

CanFail == failures < MaxFailures

GetDentsError ==
    /\ AtRead
    /\ CanFail
    /\ failures' = failures + 1
    /\ out' = Append(out, Line("Error reading contents of", Top.path))
    /\ Return
    /\ UNCHANGED <<walkFixed, results>>

GetDentsEnd ==
    /\ AtRead
    /\ GetDents(Top.dir, Top.off) = <<>>
    /\ Return
    /\ UNCHANGED <<walkFixed, failures, results, out>>

GetDentsBatch ==
    /\ AtRead
    /\ LET batch == GetDents(Top.dir, Top.off)
       IN  /\ batch # <<>>
           /\ stack' = SetTop([Top EXCEPT !.buf = batch, !.off = @ + Len(batch), !.ptr = 1])
    /\ UNCHANGED <<walkFixed, failures, results, pc, fds, out>>

IsPseudo(name) == name = Dot \/ name = DotDot

SkipPseudo ==
    /\ InLoop
    /\ IsPseudo(CurEntry.d_name)
    /\ stack' = SetTop(Advance(Top))
    /\ UNCHANGED <<walkFixed, failures, results, pc, fds, out>>

VisitFile ==
    /\ InLoop
    /\ ~IsPseudo(CurEntry.d_name)
    /\ CurEntry.d_type = "DT_REG"
    /\ \E io \in {"ok", "open", "fstat"} :
         LET m == matches(CurEntry, Stat(CurEntry), io)
             opened == IF m.opened THEN Open(fds, "file", Cur) ELSE fds
         IN  /\ IF m.msg = "" THEN io = "ok" ELSE CanFail
             /\ failures' = IF m.msg = "" THEN failures ELSE failures + 1
             /\ fds' = IF m.closed THEN Close(opened, Len(opened)) ELSE opened
             /\ out' = IF m.msg = "" THEN out
                       ELSE Append(out, Line(m.msg, Top.path \o CurEntry.d_name))
             /\ results' = IF m.ret THEN PushBack(results, Top.path \o CurEntry.d_name)
                           ELSE results
    /\ stack' = SetTop(Advance(Top))
    /\ UNCHANGED <<walkFixed, pc>>

VisitDir ==
    /\ InLoop
    /\ ~IsPseudo(CurEntry.d_name)
    /\ CurEntry.d_type = "DT_DIR"
    /\ fds' = Open(fds, "dir", Target(Top.dir, Cur))
    /\ stack' = Append(stack, Frame(Target(Top.dir, Cur), Len(fds) + 1,
                                    Top.path \o CurEntry.d_name \o <<Slash>>))
    /\ UNCHANGED <<walkFixed, failures, results, pc, out>>

\* VisitDirError, had it returned from visit after the message
VisitDirErrorAborts ==
    /\ InLoop
    /\ ~IsPseudo(CurEntry.d_name)
    /\ CurEntry.d_type = "DT_DIR"
    /\ CanFail
    /\ failures' = failures + 1
    /\ out' = Append(out, Line("Error reading contents of",
                               Top.path \o CurEntry.d_name \o <<Slash>>))
    /\ Return
    /\ UNCHANGED <<walkFixed, results>>

VisitDirError ==
    /\ InLoop
    /\ ~IsPseudo(CurEntry.d_name)
    /\ CurEntry.d_type = "DT_DIR"
    /\ CanFail
    /\ failures' = failures + 1
    /\ out' = Append(out, Line("Error reading contents of",
                               Top.path \o CurEntry.d_name \o <<Slash>>))
    /\ stack' = SetTop(Advance(Top))
    /\ UNCHANGED <<walkFixed, results, pc, fds>>

VisitOther ==
    /\ InLoop
    /\ ~IsPseudo(CurEntry.d_name)
    /\ CurEntry.d_type \notin {"DT_REG", "DT_DIR"}
    /\ stack' = SetTop(Advance(Top))
    /\ UNCHANGED <<walkFixed, failures, results, pc, fds, out>>

(***************************************************************************)
(* main from line 251 on: the walk starts with the root opened.            *)
(***************************************************************************)
\* RootPath without the "/"
RootPathNoSlash(arg) == arg

\* string path = argv[dirPosition]; if (path.back() != '/') { path += '/'; }
RootPath(arg) == IF arg[Len(arg)] # Slash THEN arg \o <<Slash>> ELSE arg

Criteria ==
    [inode_target : {0, 3}, name_target : {<<>>, <<"a">>},
     size_mode : {"NONE", "LESS", "EQUAL", "GREATER"}, size_target : {1},
     nlinks_target : {0, 2}]

StatOnly == {c \in Criteria : c.inode_target = 0 /\ c.name_target = <<>>}

\* the state when main calls visit(fd, path): set_args has accepted the
\* command line and the root directory is open.  argv holds the directory
\* argument alone; the options are given by the criteria they set.  A root
\* given with its "/" is walked with the criteria on the file status only
Init ==
    /\ tree \in Trees
    /\ failures = 0
    /\ argc = 2
    /\ \E r \in RootArgs, c \in Criteria :
         /\ r[Len(r)] = Slash => c \in StatOnly
         /\ argv = <<r>>
         /\ path = RootPath(r)
         /\ inode_target = c.inode_target
         /\ name_target = c.name_target
         /\ size_mode = c.size_mode
         /\ size_target = IF c.size_mode = "NONE" THEN 0 ELSE c.size_target
         /\ nlinks_target = c.nlinks_target
    /\ exec_target = <<>>
    /\ results = <<>>
    /\ i = 2
    /\ hasDir = TRUE
    /\ dirPosition = 1
    /\ pc = "visit"
    /\ fds = <<Handle("dir", Root)>>
    /\ stack = <<Frame(Root, 1, path)>>
    /\ out = <<>>
    /\ image = <<>>
    /\ probe = <<>>
    /\ verdict = <<>>

Next ==
    \/ GetDentsError
    \/ GetDentsEnd
    \/ GetDentsBatch
    \/ SkipPseudo
    \/ VisitFile
    \/ VisitDir
    \/ VisitDirError
    \/ VisitOther

Spec == Init /\ [][Next]_vars

(***************************************************************************)
(* matches() on its own: one call on any entry, file status and criteria.  *)
(***************************************************************************)
InitMatch ==
    /\ tree = <<>>
    /\ failures = 0
    /\ argc = 1
    /\ argv = <<>>
    /\ inode_target \in {0, 3}
    /\ name_target \in {<<>>, <<"a">>}
    /\ size_mode \in {"NONE", "LESS", "EQUAL", "GREATER"}
    /\ size_target \in 0 .. MaxSize
    /\ nlinks_target \in 0 .. 2
    /\ exec_target = <<>>
    /\ results = <<>>
    /\ i = 1
    /\ hasDir = FALSE
    /\ dirPosition = 0
    /\ path = <<>>
    /\ pc = "matches"
    /\ stack = <<>>
    /\ fds = <<>>
    /\ out = <<>>
    /\ image = <<>>
    /\ probe \in [entry : [d_ino : {2, 3}, d_type : {"DT_REG"}, d_name : Names],
                  st : [st_size : 0 .. MaxSize, st_nlink : 1 .. 2],
                  io : {"ok", "open", "fstat"}]
    /\ verdict = <<>>

CallMatches ==
    /\ pc = "matches"
    /\ verdict' = matches(probe.entry, probe.st, probe.io)
    /\ pc' = "returned"
    /\ UNCHANGED <<tree, failures, argVars, criteria, exec_target, results, path,
                   stack, fds, out, image, probe>>

NextMatch == CallMatches

SpecMatch == InitMatch /\ [][NextMatch]_vars

(***************************************************************************)
(* The command line.  std::stoul and std::stoi read an optional sign and   *)
(* the decimal digits that follow, and throw when there is no digit.       *)
(***************************************************************************)
OptInum == <<"-", "i", "n", "u", "m">>
OptName == <<"-", "n", "a", "m", "e">>
OptSize == <<"-", "s", "i", "z", "e">>
OptNlinks == <<"-", "n", "l", "i", "n", "k", "s">>
OptExec == <<"-", "e", "x", "e", "c">>
OptBogus == <<"-", "x">>

Tokens ==
    {OptInum, OptName, OptSize, OptNlinks, OptExec, OptBogus,
     <<"0">>, <<"1">>, <<"=", "1">>, <<"r">>, <<>>}

Digits == {"0", "1", "2", "3", "4", "5", "6", "7", "8", "9"}

DigitValue(c) ==
    CASE c = "0" -> 0 [] c = "1" -> 1 [] c = "2" -> 2 [] c = "3" -> 3 [] c = "4" -> 4
      [] c = "5" -> 5 [] c = "6" -> 6 [] c = "7" -> 7 [] c = "8" -> 8 [] c = "9" -> 9

RECURSIVE ParseDigits(_, _, _)
ParseDigits(s, acc, seen) ==
    IF s # <<>> /\ Head(s) \in Digits
    THEN ParseDigits(Tail(s), acc * 10 + DigitValue(Head(s)), TRUE)
    ELSE [ok |-> seen, val |-> acc]

HasSign(s) == s # <<>> /\ Head(s) \in {"+", "-"}

Unsigned(s) == ParseDigits(IF HasSign(s) THEN Tail(s) ELSE s, 0, FALSE)

\* std::stoul: a leading "-" negates in unsigned long
stoul(s) ==
    [ok |-> Unsigned(s).ok,
     val |-> IF s # <<>> /\ Head(s) = "-" /\ Unsigned(s).val # 0
             THEN 2 ^ 64 - Unsigned(s).val ELSE Unsigned(s).val]

stoi(s) ==
    [ok |-> Unsigned(s).ok,
     val |-> IF s # <<>> /\ Head(s) = "-" THEN 0 - Unsigned(s).val ELSE Unsigned(s).val]

IsOption(tok) == tok # <<>> /\ Head(tok) = "-"

Globals ==
    [inode_target |-> inode_target, name_target |-> name_target,
     size_mode |-> size_mode, size_target |-> size_target,
     nlinks_target |-> nlinks_target, exec_target |-> exec_target]

Fail(g, msg) == [g |-> g, err |-> msg]

Ok(g) == [g |-> g, err |-> ""]

\* the switch on argv[i+1][0] (main.cpp 184-197)
SizeModeOf(value) ==
    IF value = <<>> THEN "NONE"
    ELSE CASE Head(value) = "-" -> "LESS"
           [] Head(value) = "=" -> "EQUAL"
           [] Head(value) = "+" -> "GREATER"
           [] OTHER -> "NONE"

\* one option with its value (main.cpp 160-225): the globals afterwards and
\* the message of the error, if set_args returns -1
SetOption(option, value) ==
    LET g == Globals
    IN  CASE option = OptInum ->
               IF inode_target # 0 THEN Fail(g, "Only one inode number can be specified")
               ELSE IF ~stoul(value).ok THEN Fail(g, "Bad -inum argument")
               ELSE Ok([g EXCEPT !.inode_target = stoul(value).val])
          [] option = OptName ->
               IF name_target # <<>> THEN Fail(g, "Only one file name can be specified")
               ELSE Ok([g EXCEPT !.name_target = value])
          [] option = OptSize ->
               IF size_mode # "NONE" THEN Fail(g, "Only one file size can be specified")
               ELSE LET mode == SizeModeOf(value)
                        number == stoi(IF mode # "NONE" THEN Tail(value) ELSE value)
                    IN  IF ~number.ok
                        THEN Fail([g EXCEPT !.size_mode = mode], "Bad -size argument")
                        ELSE Ok([g EXCEPT !.size_mode = mode, !.size_target = number.val])
          [] option = OptNlinks ->
               IF nlinks_target # 0
               THEN Fail(g, "Only one hardlinks number can be specified")
               ELSE IF ~stoul(value).ok THEN Fail(g, "Bad -nlinks argument")
               ELSE Ok([g EXCEPT !.nlinks_target = stoul(value).val])
          [] option = OptExec ->
               IF exec_target # <<>>
               THEN Fail(g, "Only one execution target can be specified")
               ELSE Ok([g EXCEPT !.exec_target = value])
          [] OTHER -> Fail(g, "Unknown option used:")

SetGlobals(g) ==
    /\ inode_target' = g.inode_target
    /\ name_target' = g.name_target
    /\ size_mode' = g.size_mode
    /\ size_target' = g.size_target
    /\ nlinks_target' = g.nlinks_target
    /\ exec_target' = g.exec_target

\* set_args returns -1 and main returns
Reject(msg) ==
    /\ out' = Append(out, Line(msg, <<>>))
    /\ dirPosition' = -1
    /\ pc' = "exit"

InSetArgs == pc = "set_args" /\ i < argc

\* argv[i] is an option and argv holds no value for it (main.cpp 155-158)
ArgMissingValue ==
    /\ InSetArgs
    /\ argc < i + 2
    /\ \E option \in Tokens :
         /\ IsOption(option)
         /\ argv' = Append(argv, option)
    /\ Reject("Option is missing its value")
    /\ UNCHANGED <<tree, failures, argc, criteria, exec_target, results, i, hasDir,
                   path, stack, fds, image, probe, verdict>>

\* argv[i] is an option and argv[i+1] its value (main.cpp 160-226)
ArgOption ==
    /\ InSetArgs
    /\ argc >= i + 2
    /\ \E option, value \in Tokens :
         /\ IsOption(option)
         /\ argv' = argv \o <<option, value>>
         /\ SetGlobals(SetOption(option, value).g)
         /\ IF SetOption(option, value).err # ""
            THEN /\ Reject(SetOption(option, value).err)
                 /\ i' = i
            ELSE /\ i' = i + 2
                 /\ UNCHANGED <<out, dirPosition, pc>>
    /\ UNCHANGED <<tree, failures, argc, results, hasDir, path, stack, fds, image,
                   probe, verdict>>

\* argv[i] is no option: the directory (main.cpp 227-235)
ArgDirectory ==
    /\ InSetArgs
    /\ \E dir \in Tokens :
         /\ ~IsOption(dir)
         /\ argv' = Append(argv, dir)
    /\ IF hasDir
       THEN /\ Reject("Only one directory can be specified")
            /\ UNCHANGED <<i, hasDir>>
       ELSE /\ hasDir' = TRUE
            /\ dirPosition' = i
            /\ i' = i + 1
            /\ UNCHANGED <<out, pc>>
    /\ UNCHANGED <<tree, failures, argc, criteria, exec_target, results, path, stack,
                   fds, image, probe, verdict>>

\* the loop is over (main.cpp 238-243)
ArgsEnd ==
    /\ pc = "set_args"
    /\ i >= argc
    /\ IF ~hasDir
       THEN Reject("Usage: os-find [OPTIONS] DIRECTORY")
       ELSE /\ pc' = "main"
            /\ UNCHANGED <<out, dirPosition>>
    /\ UNCHANGED <<tree, failures, argc, argv, criteria, exec_target, results, i,
                   hasDir, path, stack, fds, image, probe, verdict>>

\* path.back() of an empty string is undefined: the "/" is appended or not
RootPaths(arg) == IF arg = <<>> THEN {<<>>, <<Slash>>} ELSE {RootPath(arg)}

\* open() of the empty path name fails
MainOpen ==
    /\ pc = "main"
    /\ argv[dirPosition] # <<>>
    /\ path' \in RootPaths(argv[dirPosition])
    /\ fds' = Open(fds, "dir", Root)
    /\ stack' = <<Frame(Root, Len(fds) + 1, path')>>
    /\ pc' = "visit"
    /\ UNCHANGED <<tree, failures, argVars, criteria, exec_target, results, out,
                   image, probe, verdict>>

MainOpenError ==
    /\ pc = "main"
    /\ argv[dirPosition] = <<>> \/ CanFail
    /\ failures' = failures + 1
    /\ path' \in RootPaths(argv[dirPosition])
    /\ out' = Append(out, Line("Error reading contents of", path'))
    /\ pc' = "exit"
    /\ UNCHANGED <<tree, argVars, criteria, exec_target, results, stack, fds, image,
                   probe, verdict>>

(***************************************************************************)
(* main after the walk (main.cpp 263-282)                                  *)
(***************************************************************************)
DispatchPrint ==
    /\ pc = "dispatch"
    /\ exec_target = <<>>
    /\ out' = out \o Lines("", results)
    /\ pc' = "exit"
    /\ UNCHANGED <<walkFixed, failures, results, stack, fds>>

DispatchExec ==
    /\ pc = "dispatch"
    /\ exec_target # <<>>
    /\ image' = <<exec_target>> \o results
    /\ pc' = "exec"
    /\ UNCHANGED <<tree, failures, argVars, criteria, exec_target, results, path,
                   stack, fds, out, probe, verdict>>

DispatchExecError ==
    /\ pc = "dispatch"
    /\ exec_target # <<>>
    /\ out' = Append(out, Line("Error executing", exec_target))
    /\ pc' = "exit"
    /\ UNCHANGED <<walkFixed, failures, results, stack, fds>>

\* the directory the command line is run on
FixtureTree ==
    << [parent |-> 0, d_type |-> "DT_DIR", d_name |-> <<"a">>],
       [parent |-> 1, d_type |-> "DT_REG", d_name |-> <<"b">>],
       [parent |-> 0, d_type |-> "DT_LNK", d_name |-> <<"b">>] >>

InitArgs ==
    /\ tree = FixtureTree
    /\ failures = 0
    /\ argc \in 1 .. MaxArgc
    /\ argv = <<>>
    /\ inode_target = 0
    /\ name_target = <<>>
    /\ size_mode = "NONE"
    /\ size_target = 0
    /\ nlinks_target = 0
    /\ exec_target = <<>>
    /\ results = <<>>
    /\ i = 1
    /\ hasDir = FALSE
    /\ dirPosition = 0
    /\ path = <<>>
    /\ pc = "set_args"
    /\ stack = <<>>
    /\ fds = <<>>
    /\ out = <<>>
    /\ image = <<>>
    /\ probe = <<>>
    /\ verdict = <<>>

NextArgs ==
    \/ ArgMissingValue
    \/ ArgOption
    \/ ArgDirectory
    \/ ArgsEnd
    \/ MainOpen
    \/ MainOpenError
    \/ GetDentsError
    \/ GetDentsEnd
    \/ GetDentsBatch
    \/ SkipPseudo
    \/ VisitFile
    \/ VisitDir
    \/ VisitDirError
    \/ VisitOther
    \/ DispatchPrint
    \/ DispatchExec
    \/ DispatchExecError

SpecArgs == InitArgs /\ [][NextArgs]_vars

(***************************************************************************)
(* What the claims speak of.                                               *)
(***************************************************************************)
Range(seq) == {seq[k] : k \in DOMAIN seq}

IsPrefix(s, t) == Len(s) <= Len(t) /\ SubSeq(t, 1, Len(s)) = s

NoDuplicates(seq) == \A j, k \in DOMAIN seq : seq[j] = seq[k] => j = k

RootArg == argv[dirPosition]

\* the root directory as a path prefix: the argument, "/"-terminated
RootPrefix == IF RootArg[Len(RootArg)] = Slash THEN RootArg ELSE RootArg \o <<Slash>>

\* the path of node n relative to the root directory
RECURSIVE RelPath(_)
RelPath(n) ==
    IF tree[n].parent = Root THEN tree[n].d_name
    ELSE RelPath(tree[n].parent) \o <<Slash>> \o tree[n].d_name

FullPath(n) == RootPrefix \o RelPath(n)

DirPath(d) == IF d = Root THEN RootPrefix ELSE FullPath(d) \o <<Slash>>

RegularFiles == {n \in Nodes : tree[n].d_type = "DT_REG"}

\* the directories an entry lies in, the root included
RECURSIVE Ancestors(_)
Ancestors(n) ==
    IF n = Root THEN {} ELSE {tree[n].parent} \cup Ancestors(tree[n].parent)

Subtree(e) == {n \in Nodes : n = e \/ e \in Ancestors(n)}

HasNode(p) == \E n \in Nodes : FullPath(n) = p

NodeOf(p) == CHOOSE n \in Nodes : FullPath(n) = p

NoCriteria ==
    inode_target = 0 /\ name_target = <<>> /\ size_mode = "NONE" /\ nlinks_target = 0

\* the file satisfies every configured criterion
Satisfies(n) ==
    /\ inode_target # 0 => Ino(n) = inode_target
    /\ name_target # <<>> => tree[n].d_name = name_target
    /\ size_mode = "LESS" => StSize(Ino(n)) <= size_target
    /\ size_mode = "EQUAL" => StSize(Ino(n)) = size_target
    /\ size_mode = "GREATER" => StSize(Ino(n)) >= size_target
    /\ nlinks_target # 0 => StNlink(Ino(n)) = nlinks_target

WalkDone == pc = "dispatch"

Reported(msgs, text) == \E k \in DOMAIN out : out[k].msg \in msgs /\ out[k].text = text

FailedDirs ==
    {d \in Nodes \cup {Root} : IsDir(d) /\ Reported({"Error reading contents of"}, DirPath(d))}

FailedFiles ==
    {n \in RegularFiles :
        Reported({"Error opening file at", "Error reading stats of file at"}, FullPath(n))}

DirHandles == {h \in DOMAIN fds : fds[h].kind = "dir"}

FileHandles == {h \in DOMAIN fds : fds[h].kind = "file"}

(***************************************************************************)
(* C1: with no criteria set and no I/O failure, when visit() on the root   *)
(* has returned the results hold the path of every regular file of the     *)
(* tree exactly once.                                                      *)
(***************************************************************************)
C1_EveryFileOnce ==
    (WalkDone /\ NoCriteria /\ failures = 0) =>
        /\ \A n \in RegularFiles : Cardinality({k \in DOMAIN results : results[k] = FullPath(n)}) = 1
        /\ Len(results) = Cardinality(RegularFiles)

C1_Witness ==
    /\ WalkDone /\ NoCriteria /\ failures = 0
    /\ Len(results) >= 2
    /\ \E n \in RegularFiles : tree[n].parent # Root /\ FullPath(n) \in Range(results)
    /\ \E n \in RegularFiles : tree[n].parent = Root /\ FullPath(n) \in Range(results)

(***************************************************************************)
(* C2: at every moment of the walk every path in the results is the path   *)
(* of a regular file that satisfies all configured criteria at once, and   *)
(* no path is there twice.                                                 *)
(***************************************************************************)
C2_OnlyMatchingRegularFiles ==
    /\ \A k \in DOMAIN results :
         /\ HasNode(results[k])
         /\ tree[NodeOf(results[k])].d_type = "DT_REG"
         /\ Satisfies(NodeOf(results[k]))
    /\ NoDuplicates(results)

C2_Witness ==
    /\ results # <<>>
    /\ inode_target # 0 /\ name_target # <<>> /\ size_mode # "NONE" /\ nlinks_target # 0
    /\ \E n \in RegularFiles : FullPath(n) \notin Range(results) /\ WalkDone

(***************************************************************************)
(* C4 as claimed: every result is the path relative to the root directory  *)
(* and does not begin with the root path of the command line.              *)
(***************************************************************************)
C4_RelativeToRoot ==
    \A k \in DOMAIN results :
        /\ \E n \in RegularFiles : results[k] = RelPath(n)
        /\ ~IsPrefix(RootArg, results[k])

(***************************************************************************)
(* C4 amended: every result is the root path of the command line, with a   *)
(* "/" appended unless it ends in one, followed by the directory prefix    *)
(* relative to the root and the file name.                                 *)
(***************************************************************************)
C4_RootThenRelative ==
    \A k \in DOMAIN results :
        \E n \in RegularFiles : results[k] = RootPrefix \o RelPath(n)

C4_Witness ==
    /\ RootArg[Len(RootArg)] # Slash
    /\ \E k \in DOMAIN results : tree[NodeOf(results[k])].parent # Root

(***************************************************************************)
(* C5: the results are in pre-order of the directory streams: of two       *)
(* entries of one directory, all results of the earlier one (itself or     *)
(* its whole subtree) come before all results of the later one, and the    *)
(* active visit() calls are nested at the entry each caller is at.         *)
(***************************************************************************)
C5_PreOrder ==
    /\ \A j, k \in DOMAIN results :
         \A e1, e2 \in Nodes :
           ( /\ tree[e1].parent = tree[e2].parent
             /\ e1 < e2
             /\ HasNode(results[j]) /\ HasNode(results[k])
             /\ NodeOf(results[j]) \in Subtree(e1)
             /\ NodeOf(results[k]) \in Subtree(e2) ) => j < k
    /\ \A k \in 1 .. (Len(stack) - 1) :
         /\ stack[k].ptr <= Len(stack[k].buf)
         /\ stack[k + 1].dir = stack[k].buf[stack[k].ptr]

C5_Witness ==
    /\ WalkDone
    /\ \E j, k \in DOMAIN results :
         /\ j < k
         /\ tree[NodeOf(results[j])].parent # Root
         /\ tree[NodeOf(results[k])].parent = Root

(***************************************************************************)
(* C6: a failure to open or to read a directory D is reported and stays    *)
(* local to D: the walk can always go on until it is done, a directory     *)
(* that could not be opened contributes no result, no result is ever taken *)
(* back, and when the walk is done every matching regular file that is not *)
(* in or beneath a failed directory is in the results.                     *)
(***************************************************************************)
C6_StateOk ==
    /\ Len(out) = failures
    /\ pc = "visit" => ENABLED Next
    /\ \A d \in FailedDirs :
         (\A h \in DirHandles : fds[h].node # d) =>
             \A k \in DOMAIN results : NodeOf(results[k]) \notin Subtree(d)
    /\ WalkDone =>
         \A n \in RegularFiles :
            ( /\ Ancestors(n) \cap FailedDirs = {}
              /\ n \notin FailedFiles
              /\ Satisfies(n) ) => FullPath(n) \in Range(results)

C6_FailureIsLocal == [](C6_StateOk) /\ [][IsPrefix(results, results')]_vars

C6_Witness ==
    /\ WalkDone
    /\ \E d \in FailedDirs, j, k \in DOMAIN results :
         /\ d # Root
         /\ j < k
         /\ NodeOf(results[j]) \in Subtree(d)
         /\ NodeOf(results[k]) > d
         /\ tree[NodeOf(results[k])].parent = tree[d].parent

(***************************************************************************)
(* C8 as claimed: outside a call of matches() no handle that matches()     *)
(* opened to fetch metadata is open.                                       *)
(***************************************************************************)
C8_NoMetadataHandleOpen == \A h \in FileHandles : ~IsOpen(h)

(***************************************************************************)
(* C9: the open directory handles are exactly the handles of the active    *)
(* visit() calls, one per call and each on the directory of its call;      *)
(* every other directory handle was closed exactly once, and after the     *)
(* walk none is open.                                                      *)
(***************************************************************************)
C9_DirHandlesFollowStack ==
    /\ {h \in DirHandles : IsOpen(h)} = {stack[k].fd : k \in DOMAIN stack}
    /\ \A j, k \in DOMAIN stack : stack[j].fd = stack[k].fd => j = k
    /\ \A k \in DOMAIN stack : fds[stack[k].fd].node = stack[k].dir
    /\ \A h \in DirHandles : fds[h].nclose <= 1
    /\ WalkDone => \A h \in DirHandles : fds[h].nclose = 1

C9_Witness ==
    /\ WalkDone
    /\ Cardinality(DirHandles) >= 3
    /\ \E d \in FailedDirs, h \in DirHandles : fds[h].node = d /\ d # Root

(***************************************************************************)
(* C3: with only the size criterion configured and open and fstat          *)
(* succeeding, matches() returns true exactly when size <= threshold in    *)
(* LESS mode, size = threshold in EQUAL mode, size >= threshold in         *)
(* GREATER mode; a size equal to the threshold matches in all three.       *)
(***************************************************************************)
OnlySize ==
    inode_target = 0 /\ name_target = <<>> /\ nlinks_target = 0 /\ size_mode # "NONE"

C3_SizeBoundaries ==
    (pc = "returned" /\ OnlySize /\ probe.io = "ok") =>
        verdict.ret = CASE size_mode = "LESS" -> probe.st.st_size <= size_target
                        [] size_mode = "EQUAL" -> probe.st.st_size = size_target
                        [] size_mode = "GREATER" -> probe.st.st_size >= size_target

C3_Witness ==
    /\ pc = "returned" /\ OnlySize /\ probe.io = "ok"
    /\ size_mode = "LESS"
    /\ probe.st.st_size = size_target
    /\ verdict.ret = TRUE

(***************************************************************************)
(* The command line as the claims read it.                                 *)
(***************************************************************************)
KnownOptions == {OptInum, OptName, OptSize, OptNlinks, OptExec}

\* the positions of argv that set_args reads as options, from k on
RECURSIVE OptionsFrom(_)
OptionsFrom(k) ==
    IF k > Len(argv) THEN {}
    ELSE IF IsOption(argv[k]) THEN {k} \cup OptionsFrom(k + 2)
    ELSE OptionsFrom(k + 1)

RECURSIVE DirectoriesFrom(_)
DirectoriesFrom(k) ==
    IF k > Len(argv) THEN {}
    ELSE IF IsOption(argv[k]) THEN DirectoriesFrom(k + 2)
    ELSE {k} \cup DirectoriesFrom(k + 1)

UnknownFlag == \E k \in OptionsFrom(1) : argv[k] \notin KnownOptions

DuplicateFlag ==
    \E j, k \in OptionsFrom(1) : j < k /\ argv[j] = argv[k] /\ argv[j] \in KnownOptions

NoDirectory == Len(argv) = argc - 1 /\ DirectoriesFrom(1) = {}

\* set_args returned a directory position
Accepted == pc \in {"main", "visit", "dispatch", "exec"} \/ (pc = "exit" /\ dirPosition # -1)

\* a value of -size that parses: a number, with or without a mode before it
Parseable(value) ==
    stoi(IF value # <<>> /\ Head(value) \in {"-", "=", "+"} THEN Tail(value) ELSE value).ok

SizeOptionGiven ==
    \E k \in OptionsFrom(1) :
        argv[k] = OptSize /\ k + 1 <= Len(argv) /\ Parseable(argv[k + 1])

(***************************************************************************)
(* C7 as claimed: when argv holds an unknown option, an option given more  *)
(* than once (whatever its values) or no directory, set_args prints a      *)
(* message and returns -1 and main ends without opening the root           *)
(* directory or calling visit().                                           *)
(***************************************************************************)
C7_ConfigErrorStopsMain ==
    (UnknownFlag \/ DuplicateFlag \/ NoDirectory) =>
        /\ pc \in {"set_args", "exit"}
        /\ fds = <<>>
        /\ stack = <<>>
        /\ pc = "exit" => (dirPosition = -1 /\ out # <<>>)

(***************************************************************************)
(* C10 as claimed: when set_args accepts a command line that holds a       *)
(* -size option with a value that parses, size_mode is not NONE and every  *)
(* result passes the size comparison.                                      *)
(***************************************************************************)
C10_SizeOptionIsActive ==
    (Accepted /\ SizeOptionGiven) =>
        /\ size_mode # "NONE"
        /\ \A k \in DOMAIN results : HasNode(results[k]) /\ Satisfies(NodeOf(results[k]))

====
